---- MODULE Spec2Model ----
(***************************************************************************)
(* Model of the multi-source scraper scrape_and_notify.py: the orchestrator *)
(* main(), the persisted dedup store (load_sent / save_sent), the persisted *)
(* consecutive-failure counter (fetch_url / fetch_json) and the two         *)
(* extraction strategies, as far as the delivery bookkeeping depends on     *)
(* them.                                                                    *)
(*                                                                          *)
(* Calendar dates are day numbers from 1; the empty string that the code    *)
(* uses for an unknown date is 0.  Article links are integers 1..N.         *)
(***************************************************************************)
EXTENDS Integers, Sequences, FiniteSets, TLC

\* ---------------------------------------------------------------- bounds
NumLinks == 2
MaxPosts == 2
MaxDay == 3
MaxFetches == 4
MaxQueue == 2
\* The number of sources of scrape_and_notify_multi.py is at most MaxSources.
MaxSources == 2
\* The largest max_retries telegram_request is called with (its default is 3).
MaxTries == 3

\* ------------------------------------------------------ program constants
FETCH_FAILURE_THRESHOLD == 3
MAX_CAPTION == 1024

\* The calendar date when the script starts; day 1 is the day before.
StartDay == 2

Links == 1..NumLinks
Days == StartDay..MaxDay

VARIABLES
    clock,            \* the calendar date date.today() returns now
    sources,          \* what load_sources() returns (sources.yml)
    sentFile,         \* sent_articles.json
    loadedKind,       \* the shape of sent_articles.json when load_sent read it
    failCount,        \* fetch_failures.json: {"count": n}
    alerts,           \* number of send_alert calls of this run
    fatalAlertSent,   \* _fatal_alert_sent_this_run
    pc,               \* position of main()
    src,              \* index of the source the for loop is at
    fetched,          \* what the fetch of the current source did
    articles,         \* articles returned by the parser for this source
    new_articles,     \* main(): the filtered list
    idx,              \* main(): position of the send loop in new_articles
    sent_urls,        \* main(): the in-memory dedup set
    today_str,        \* main(): the reference date of the run
    attempted,        \* links send_article was called with, this source
    deliveries,       \* link -> successful send_article calls of this run
                      \* (0, 1, or 2 for two and more)
    undelivered,      \* links whose attempts all failed so far
    fetchLog,         \* outcomes of the fetches made so far
    creds,            \* TELEGRAM_TOKEN and TELEGRAM_CHAT_ID are both set
    allowed_domains,  \* the source's allowed_domains
    events,           \* what the send loop did so far: calls, requests, sleeps
    url,              \* is_safe_url: the URL under test
    is_safe,          \* is_safe_url: what it returned
    article,          \* send_article: the texts of the article being formatted
    payload,          \* send_article / _send: the text handed to the API call
    tmpFile,          \* save_sent / save_fetch_failures: the temporary file
    saving,           \* the save under way: its target, old and new content
    request,          \* telegram_request: its locals and what it did so far
    extraction,       \* a parser call: the page or feed and what it returned
    multi             \* scrape_and_notify_multi.main: its state

\* The variables of send_article, is_safe_url and the message formatting, which
\* the orchestrator model and the fetch model leave alone.
detail == <<tmpFile, saving, request, extraction, multi>>

elsewhere == <<creds, allowed_domains, events, url, is_safe, article, payload,
               detail>>

vars == <<clock, sources, sentFile, loadedKind, failCount, alerts, fatalAlertSent, pc,
          src, fetched, articles, new_articles, idx, sent_urls, today_str,
          attempted, deliveries, undelivered, fetchLog, elsewhere>>

\* ------------------------------------------------------------- helpers
Range(s) == {s[i] : i \in 1..Len(s)}

SeqsUpTo(S, n) == UNION {[1..k -> S] : k \in 0..n}

Min(S) == CHOOSE x \in S : \A y \in S : x <= y

\* sorted(urls): the ascending list of a set
RECURSIVE Sorted(_)
Sorted(S) ==
    IF S = {} THEN <<>> ELSE <<Min(S)>> \o Sorted(S \ {Min(S)})

Reverse(s) == [i \in 1..Len(s) |-> s[Len(s) + 1 - i]]

\* ------------------------------------------------- dedup store (file)
\* kind "none": the file is missing or is not JSON; "list": the legacy bare
\* list; "dict": {"date": d, "urls": [...]}.
NoStore == [kind |-> "none", date |-> 0, urls |-> <<>>]

\* load_sent without the date test of line 78
load_sent_Unscoped(file, today) ==
    IF file.kind = "none" THEN {} ELSE Range(file.urls)

\* load_sent without the list test of lines 75-76
load_sent_NoLegacy(file, today) ==
    IF file.kind # "dict" THEN {}
    ELSE IF file.date # today THEN {}
    ELSE Range(file.urls)

\* load_sent, lines 67-84
load_sent(file, today) ==
    IF file.kind = "none" THEN {}
    ELSE IF file.kind = "list" THEN Range(file.urls)
    ELSE IF file.date # today THEN {}
    ELSE Range(file.urls)

\* save_sent, lines 87-101
save_sent(urls, today) ==
    [kind |-> "dict", date |-> today, urls |-> Sorted(urls)]

\* ------------------------------------------- failure counter (file)
\* fetch_url / fetch_json, except branch: the count written last
FailuresAfterFailure(count) ==
    IF count + 1 >= FETCH_FAILURE_THRESHOLD THEN 0 ELSE count + 1

\* fetch_url / fetch_json, except branch: whether send_alert is called
AlertOnFailure(count) == count + 1 >= FETCH_FAILURE_THRESHOLD

\* fetch_url, success: save_fetch_failures(0)
FailuresAfterUrlSuccess(count) == 0

\* fetch_json, success: returns resp.json() and writes nothing
FailuresAfterJsonSuccess(count) == count

\* ---------------------------------------------------------- parsers
\* A container of a markup page: whether the headline selector matched (tag),
\* the link urljoin gave (0: empty), whether the headline text is non-empty
\* (headline) and the date parse_date returns for its date text (0: "").
\* A page read on day d shows undated articles and articles dated d - 1 or d.
Containers(d) ==
    [tag : BOOLEAN, link : 0..NumLinks, headline : BOOLEAN, date : {0, d - 1, d}]

Article(link, date) == [link |-> link, parsed_date |-> date]

\* A loop over the containers that keeps no set of seen links
RECURSIVE ParseContainers_NoSeen(_, _)
ParseContainers_NoSeen(containers, seen_links) ==
    IF containers = <<>> THEN <<>>
    ELSE LET c == Head(containers)
             rest == ParseContainers_NoSeen(Tail(containers), seen_links)
         IN  IF ~c.tag \/ c.link = 0 \/ ~c.headline THEN rest
             ELSE <<Article(c.link, c.date)>> \o rest

RECURSIVE ParseContainers(_, _)
ParseContainers(containers, seen_links) ==
    IF containers = <<>> THEN <<>>
    ELSE LET c == Head(containers)
             rest == Tail(containers)
         IN  IF ~c.tag THEN ParseContainers(rest, seen_links)
             ELSE IF c.link = 0 \/ c.link \in seen_links
                  THEN ParseContainers(rest, seen_links)
             ELSE IF ~c.headline
                  THEN ParseContainers(rest, seen_links \cup {c.link})
             ELSE <<Article(c.link, c.date)>>
                  \o ParseContainers(rest, seen_links \cup {c.link})

\* parse_html_source after the fetch: the for loop over the containers
parse_html_source(containers) == ParseContainers(containers, {})

\* A post of a feed: date_gmt's calendar date (0: missing or not ISO) and link.
\* A feed read on UTC day d holds posts of d - 1 and d.
Posts(d) == [date_gmt : {0, d - 1, d}, link : Links]

RECURSIVE parse_wpjson_source(_, _)
parse_wpjson_source(data, today_utc) ==
    IF data = <<>> THEN <<>>
    ELSE LET post == Head(data)
             rest == parse_wpjson_source(Tail(data), today_utc)
         IN  IF post.date_gmt = 0 THEN rest
             ELSE IF post.date_gmt # today_utc THEN rest
             ELSE <<Article(post.link, post.date_gmt)>> \o rest

\* The filter with a date test that also drops undated articles
RECURSIVE FilterNew_DropsUndated(_, _, _)
FilterNew_DropsUndated(arts, sent, today) ==
    IF arts = <<>> THEN <<>>
    ELSE LET a == Head(arts)
             rest == FilterNew_DropsUndated(Tail(arts), sent, today)
         IN  IF a.link \in sent THEN rest
             ELSE IF a.parsed_date # today THEN rest
             ELSE <<a>> \o rest

\* main() lines 588-595: "Filter to today's articles not yet sent"
RECURSIVE FilterNew(_, _, _)
FilterNew(arts, sent, today) ==
    IF arts = <<>> THEN <<>>
    ELSE LET a == Head(arts)
             rest == FilterNew(Tail(arts), sent, today)
         IN  IF a.link \in sent THEN rest
             ELSE IF a.parsed_date # 0 /\ a.parsed_date # today THEN rest
             ELSE <<a>> \o rest

\* ------------------------------------------------------- configuration
\* A source descriptor: its type and the required field it lacks, if any.
\* A descriptor whose type is not "wp-json" is handled as markup.
Descriptors ==
    [type : {"html", "wp-json"}, missing : {"none", "name", "url", "selectors"}]

\* sources.yml: no source at all, or a markup source and a feed source in
\* either order, the first of which may lack a required field (selectors are
\* read by the markup parser only).
Configs ==
    {<<>>} \cup
    {c \in [1..2 -> Descriptors] :
        /\ c[1].type # c[2].type
        /\ c[2].missing = "none"
        /\ c[1].missing = "selectors" => c[1].type = "html"}

\* Pages and feeds that a fetch can return.
ValidContainers(d) ==
    {c \in Containers(d) : c.tag /\ c.headline /\ c.link # 0}
Pages(d) == SeqsUpTo(ValidContainers(d), MaxPosts)
Feeds(d) == SeqsUpTo(Posts(d), MaxPosts)

\* What the parsers return over all pages of a day, and over all feeds of a
\* UTC day.
HtmlResults ==
    [d \in Days |-> {parse_html_source(page) : page \in Pages(d)}]
WpResults ==
    [today_utc \in 1..MaxDay |->
        {parse_wpjson_source(data, today_utc) : data \in Feeds(today_utc)}]

\* The sets {}, {1}, {1, 2}, ...: every set of links up to renaming the links.
LinkSets == {1..k : k \in 0..NumLinks}

\* Legacy stores: bare lists in descending order, and one with a repeated link.
LegacyLists ==
    {Reverse(Sorted(S)) : S \in LinkSets \ {{}}} \cup {<<1, 1>>}

\* sent_articles.json when the script starts: absent, a legacy list, or what
\* an earlier run wrote the day before or earlier on the same day.
InitialStores ==
    {NoStore}
    \cup {[kind |-> "list", date |-> 0, urls |-> u] : u \in LegacyLists}
    \cup {save_sent(S, StartDay) : S \in LinkSets}
    \cup {save_sent(Links, StartDay - 1)}

\* The variables of the other models at rest.
NotSending == creds = TRUE /\ allowed_domains = <<>> /\ events = <<>>
NotChecking == url = <<>> /\ is_safe = "unset"
NotFormatting == article = <<>> /\ payload = <<>>
\* No such file.
Absent == [kind |-> "absent", date |-> 0, urls |-> <<>>]

NotCalling == request = <<>> /\ extraction = <<>> /\ multi = <<>>
NoDetail == tmpFile = Absent /\ saving = <<>> /\ NotCalling
NotElsewhere == NotSending /\ NotChecking /\ NotFormatting /\ NoDetail

\* ----------------------------------------------------------------- Init
Init ==
    /\ clock = StartDay
    /\ sources \in Configs
    /\ sentFile \in InitialStores
    /\ loadedKind = "unread"
    /\ failCount \in {0, FETCH_FAILURE_THRESHOLD - 1}
    /\ alerts = 0
    /\ fatalAlertSent = FALSE
    /\ pc = "start"
    /\ src = 0
    /\ fetched = "none"
    /\ articles = <<>>
    /\ new_articles = <<>>
    /\ idx = 0
    /\ sent_urls = {}
    /\ today_str = 0
    /\ attempted = <<>>
    /\ deliveries = [l \in Links |-> 0]
    /\ undelivered = {}
    /\ fetchLog = <<>>
    /\ NotElsewhere

history == <<loadedKind, deliveries, undelivered, fetchLog>>
files == <<sentFile, failCount>>
locals == <<src, fetched, articles, new_articles, idx, sent_urls, today_str,
            attempted>>

\* -------------------------------------------------------------- main()
\* main() lines 558-562: no source configured
StartNoSources ==
    /\ pc = "start"
    /\ sources = <<>>
    /\ alerts' = alerts + 1
    /\ pc' = "done"
    /\ UNCHANGED <<elsewhere, clock, sources, files, fatalAlertSent, locals, history>>

\* main() line 558-559 with sources
Start ==
    /\ pc = "start"
    /\ sources # <<>>
    /\ pc' = "load"
    /\ UNCHANGED <<elsewhere, clock, sources, files, alerts, fatalAlertSent, locals,
                   history>>

\* main() line 564: sent_urls = load_sent()
LoadSent ==
    /\ pc = "load"
    /\ sent_urls' = load_sent(sentFile, clock)
    /\ loadedKind' = sentFile.kind
    /\ pc' = "today"
    /\ UNCHANGED <<elsewhere, clock, sources, files, alerts, fatalAlertSent, src,
                   fetched, articles, new_articles, idx, today_str, attempted,
                   deliveries, undelivered, fetchLog>>

\* main() line 567: today_str = date.today().isoformat(); the loop begins
SetToday ==
    /\ pc = "today"
    /\ today_str' = clock
    /\ src' = 1
    /\ pc' = "parse"
    /\ UNCHANGED <<elsewhere, clock, sources, files, alerts, fatalAlertSent, fetched,
                   articles, new_articles, idx, sent_urls, attempted, history>>

\* The parser returned arts: main() lines 581-597 filter them.
Parsed(arts) ==
    /\ articles' = arts
    /\ new_articles' = FilterNew(arts, sent_urls, today_str)
    /\ idx' = 1
    /\ attempted' = <<>>
    /\ pc' = "send"

\* An exception leaves main(): line 617 catches it.
Raised(alertsNow) ==
    /\ alerts' = alertsNow
    /\ pc' = "handler"
    /\ UNCHANGED <<articles, new_articles, idx, attempted>>

\* The except branch of fetch_url / fetch_json, then the except branch of the
\* parser (lines 264-266, 362-364), which reads source["name"].
FetchFailed(s) ==
    /\ failCount' = FailuresAfterFailure(failCount)
    /\ fatalAlertSent' = (fatalAlertSent \/ AlertOnFailure(failCount))
    /\ fetched' = "failed"
    /\ LET a == IF AlertOnFailure(failCount) THEN alerts + 1 ELSE alerts
       IN  IF s.missing = "name"
           THEN Raised(a)
           ELSE alerts' = a /\ Parsed(<<>>)

\* source["list_url"] / source["api_url"] raises KeyError inside the try
MissingUrl ==
    /\ pc = "parse"
    /\ sources[src].missing = "url"
    /\ fetched' = "nourl"
    /\ Parsed(<<>>)
    /\ UNCHANGED <<elsewhere, clock, sources, files, alerts, fatalAlertSent, src,
                   sent_urls, today_str, history>>

\* parse_html_source, fetch_url raised
ParseHtmlFetchFail ==
    /\ pc = "parse"
    /\ sources[src].type = "html"
    /\ sources[src].missing # "url"
    /\ FetchFailed(sources[src])
    /\ UNCHANGED <<elsewhere, clock, sources, sentFile, src, sent_urls, today_str,
                   history>>

\* parse_html_source, fetch_url returned the page
ParseHtmlOk ==
    /\ pc = "parse"
    /\ sources[src].type = "html"
    /\ sources[src].missing \in {"none", "name"}
    /\ failCount' = FailuresAfterUrlSuccess(failCount)
    /\ fetched' = "ok"
    /\ \E arts \in HtmlResults[clock] :
          IF sources[src].missing = "name" /\ arts # <<>>
          THEN Raised(alerts)
          ELSE alerts' = alerts /\ Parsed(arts)
    /\ UNCHANGED <<elsewhere, clock, sources, sentFile, fatalAlertSent, src,
                   sent_urls, today_str, history>>

\* parse_html_source without selectors: soup.select("") either raises (the
\* selector library rejects the empty selector) or matches nothing.
ParseHtmlNoSelectors ==
    /\ pc = "parse"
    /\ sources[src].type = "html"
    /\ sources[src].missing = "selectors"
    /\ failCount' = FailuresAfterUrlSuccess(failCount)
    /\ fetched' = "ok"
    /\ \/ Raised(alerts)
       \/ alerts' = alerts /\ Parsed(<<>>)
    /\ UNCHANGED <<elsewhere, clock, sources, sentFile, fatalAlertSent, src,
                   sent_urls, today_str, history>>

\* parse_wpjson_source, fetch_json raised
ParseWpFetchFail ==
    /\ pc = "parse"
    /\ sources[src].type = "wp-json"
    /\ sources[src].missing # "url"
    /\ FetchFailed(sources[src])
    /\ UNCHANGED <<elsewhere, clock, sources, sentFile, src, sent_urls, today_str,
                   history>>

\* parse_wpjson_source, fetch_json returned the feed. today_utc is the UTC
\* calendar date, which is the local date or the day before it.
ParseWpOk ==
    /\ pc = "parse"
    /\ sources[src].type = "wp-json"
    /\ sources[src].missing \in {"none", "name"}
    /\ failCount' = FailuresAfterJsonSuccess(failCount)
    /\ fetched' = "ok"
    /\ \E today_utc \in {clock - 1, clock} :
          \E arts \in WpResults[today_utc] :
             IF sources[src].missing = "name" /\ arts # <<>>
             THEN Raised(alerts)
             ELSE alerts' = alerts /\ Parsed(arts)
    /\ UNCHANGED <<elsewhere, clock, sources, sentFile, fatalAlertSent, src,
                   sent_urls, today_str, history>>

\* The links this run has delivered.
DeliveredRun == {l \in Links : deliveries[l] > 0}

\* main() lines 600-603: send_article(article) returned
SendOk ==
    /\ pc = "send"
    /\ idx <= Len(new_articles)
    /\ LET link == new_articles[idx].link
       IN  /\ attempted' = Append(attempted, link)
           /\ deliveries' = [deliveries EXCEPT ![link] = IF @ = 0 THEN 1 ELSE 2]
           /\ undelivered' = undelivered \ {link}
    /\ pc' = "persist"
    /\ UNCHANGED <<elsewhere, clock, sources, files, alerts, fatalAlertSent, src,
                   fetched, articles, new_articles, idx, sent_urls, today_str,
                   loadedKind, fetchLog>>

\* An except branch that marks the link all the same
SentAfterFailure_Marks(sent, link) == sent \cup {link}

\* main() lines 608-609: the except branch leaves sent_urls as it is
SentAfterFailure(sent, link) == sent

\* main() lines 608-609: send_article(article) raised
SendFail ==
    /\ pc = "send"
    /\ idx <= Len(new_articles)
    /\ LET link == new_articles[idx].link
       IN  /\ attempted' = Append(attempted, link)
           /\ undelivered' =
                 IF link \in DeliveredRun THEN undelivered
                 ELSE undelivered \cup {link}
           /\ sent_urls' = SentAfterFailure(sent_urls, link)
    /\ idx' = idx + 1
    /\ UNCHANGED <<elsewhere, clock, sources, files, alerts, fatalAlertSent, pc, src,
                   fetched, articles, new_articles, today_str, loadedKind,
                   deliveries, fetchLog>>

\* A success branch that saves without adding the link
SentAfterSuccess_Forgets(sent, link) == sent

\* main() line 604: sent_urls.add(article["link"])
SentAfterSuccess(sent, link) == sent \cup {link}

\* main() lines 604-607: sent_urls.add(link); save_sent(sent_urls)
Persist ==
    /\ pc = "persist"
    /\ sent_urls' = SentAfterSuccess(sent_urls, new_articles[idx].link)
    /\ sentFile' = save_sent(sent_urls', clock)
    /\ idx' = idx + 1
    /\ pc' = "send"
    /\ UNCHANGED <<elsewhere, clock, sources, failCount, alerts, fatalAlertSent, src,
                   fetched, articles, new_articles, today_str, attempted,
                   history>>

\* The process has ended: its memory is gone.
Exited ==
    /\ src' = 0
    /\ fetched' = "none"
    /\ articles' = <<>>
    /\ new_articles' = <<>>
    /\ idx' = 0
    /\ sent_urls' = {}
    /\ today_str' = 0
    /\ attempted' = <<>>

\* main() line 570: the for loop takes the next source, or main() returns
NextSource ==
    /\ pc = "send"
    /\ idx > Len(new_articles)
    /\ IF src < Len(sources)
       THEN /\ src' = src + 1
            /\ pc' = "parse"
            /\ UNCHANGED <<fetched, articles, new_articles, idx, sent_urls,
                           today_str, attempted>>
       ELSE /\ pc' = "done"
            /\ Exited
    /\ UNCHANGED <<elsewhere, clock, sources, files, alerts, fatalAlertSent,
                   history>>

\* ------------------------------------------------------------ __main__
\* A handler that lets the failure of its alert replace the exception
HandlerExit_AlertReplaces(alertRaised) ==
    IF alertRaised THEN "alert_raised" ELSE "raised"

\* __main__ lines 620-624: where the handler ends. The send_alert call is in
\* a try of its own (and send_alert catches what telegram_request raises,
\* lines 548-551); line 624 re-raises the exception of main().
HandlerExit(alertRaised) == "raised"

\* __main__ lines 617-624, no threshold alert went out in this run:
\* send_alert is called, its send succeeds or fails, the exception is re-raised
HandlerAlerts ==
    /\ pc = "handler"
    /\ ~fatalAlertSent
    /\ alerts' = alerts + 1
    /\ \E alertRaised \in BOOLEAN : pc' = HandlerExit(alertRaised)
    /\ UNCHANGED <<elsewhere, clock, sources, files, fatalAlertSent, locals, history>>

\* __main__ lines 617-619 and 624, _fatal_alert_sent_this_run is set:
\* no alert, the exception is re-raised
HandlerSkipsAlert ==
    /\ pc = "handler"
    /\ fatalAlertSent
    /\ pc' = "raised"
    /\ UNCHANGED <<elsewhere, clock, sources, files, alerts, fatalAlertSent, locals,
                   history>>

\* ---------------------------------------------------------- environment
Running == pc \in {"load", "today", "parse", "send", "persist"}

\* The process is killed.
Crash ==
    /\ Running
    /\ pc' = "crashed"
    /\ Exited
    /\ UNCHANGED <<elsewhere, clock, sources, files, alerts, fatalAlertSent, history>>

\* Midnight passes. The date is read by load_sent, by line 567, by the
\* parsers and by save_sent: midnight is observed at these points only.
Tick ==
    /\ pc \in {"load", "today", "parse", "persist"}
    /\ clock < MaxDay
    /\ clock' = clock + 1
    /\ UNCHANGED <<elsewhere, sources, files, alerts, fatalAlertSent, pc,
                   locals, history>>

Next ==
    \/ StartNoSources
    \/ Start
    \/ LoadSent
    \/ SetToday
    \/ MissingUrl
    \/ ParseHtmlFetchFail
    \/ ParseHtmlOk
    \/ ParseHtmlNoSelectors
    \/ ParseWpFetchFail
    \/ ParseWpOk
    \/ SendOk
    \/ SendFail
    \/ Persist
    \/ NextSource
    \/ HandlerAlerts
    \/ HandlerSkipsAlert
    \/ Crash
    \/ Tick

Spec == Init /\ [][Next]_vars

\* __main__ lines 614-624: the exit status of the process once it has ended.
\* main() returning ends the script with status 0; the re-raised exception
\* ends it with status 1.
ExitStatus == IF pc = "raised" THEN 1 ELSE 0

\* ------------------------------------------- the fetch functions alone
\* fetch_url and fetch_json called one after the other, in any order and
\* with any outcome, possibly by several runs of the script.
InitFetch ==
    /\ clock = StartDay
    /\ sources = <<>>
    /\ sentFile = NoStore
    /\ loadedKind = "unread"
    /\ failCount = 0
    /\ alerts = 0
    /\ fatalAlertSent = FALSE
    /\ pc = "fetch"
    /\ src = 0
    /\ fetched = "none"
    /\ articles = <<>>
    /\ new_articles = <<>>
    /\ idx = 0
    /\ sent_urls = {}
    /\ today_str = 0
    /\ attempted = <<>>
    /\ deliveries = [l \in Links |-> 0]
    /\ undelivered = {}
    /\ fetchLog = <<>>
    /\ NotElsewhere

Logged(json, ok) ==
    /\ Len(fetchLog) < MaxFetches
    /\ fetchLog' = Append(fetchLog,
          [json |-> json, ok |-> ok, before |-> failCount,
           after |-> failCount', alert |-> alerts' # alerts])
    /\ UNCHANGED <<elsewhere, clock, sources, sentFile, loadedKind, pc, locals,
                   deliveries, undelivered>>

\* fetch_url / fetch_json, lines 139-147 and 161-169
FetchRaises(json) ==
    /\ pc = "fetch"
    /\ failCount' = FailuresAfterFailure(failCount)
    /\ alerts' = IF AlertOnFailure(failCount) THEN alerts + 1 ELSE alerts
    /\ fatalAlertSent' = (fatalAlertSent \/ AlertOnFailure(failCount))
    /\ Logged(json, FALSE)

\* fetch_url, lines 136-138 and 149-150
fetch_url_returns ==
    /\ pc = "fetch"
    /\ failCount' = FailuresAfterUrlSuccess(failCount)
    /\ UNCHANGED <<alerts, fatalAlertSent>>
    /\ Logged(FALSE, TRUE)

\* fetch_json, lines 157-160
fetch_json_returns ==
    /\ pc = "fetch"
    /\ failCount' = FailuresAfterJsonSuccess(failCount)
    /\ UNCHANGED <<alerts, fatalAlertSent>>
    /\ Logged(TRUE, TRUE)

fetch_url_raises == FetchRaises(FALSE)

fetch_json_raises == FetchRaises(TRUE)

\* The script ends and is started again: the counter file stays.
FetchRunEnds ==
    /\ pc = "fetch"
    /\ fatalAlertSent
    /\ fatalAlertSent' = FALSE
    /\ alerts' = 0
    /\ UNCHANGED <<elsewhere, clock, sources, files, loadedKind, pc, locals, deliveries,
                   undelivered, fetchLog>>

NextFetch ==
    \/ fetch_url_returns
    \/ fetch_json_returns
    \/ fetch_url_raises
    \/ fetch_json_raises
    \/ FetchRunEnds

SpecFetch == InitFetch /\ [][NextFetch]_vars

\* --------------------------------------------------------- is_safe_url
\* Texts are sequences of one-character strings.
\* str.lower(), on the letters that occur
LowerChar(c) ==
    CASE c = "E" -> "e"
      [] c = "X" -> "x"
      [] c = "M" -> "m"
      [] c = "A" -> "a"
      [] OTHER -> c

Lower(text) == [i \in 1..Len(text) |-> LowerChar(text[i])]

\* str.endswith(suffix)
EndsWith(text, suffix) ==
    /\ Len(text) >= Len(suffix)
    /\ SubSeq(text, Len(text) - Len(suffix) + 1, Len(text)) = suffix

\* A URL by its parts: the scheme as written, and the userinfo, host and
\* port that make up its network location.
Schemes == {"http", "https", "HTTPS", "ftp", ""}
Hosts ==
    { <<"e", "x", ".", "m", "a">>,                     \* ex.ma
      <<"E", "x", ".", "M", "A">>,                     \* Ex.MA
      <<"c", ".", "e", "x", ".", "m", "a">>,           \* c.ex.ma
      <<"c", "-", "e", "x", ".", "m", "a">>,           \* c-ex.ma
      <<"c", "e", "x", ".", "m", "a">>,                \* cex.ma
      <<"e", "x", ".", "m", "a", ".", "c">>,           \* ex.ma.c
      <<"x", ".", "m", "a">>,                          \* x.ma
      <<>> }                                           \* no host
UserInfos == { <<>>, <<"u">> }
Ports == { <<>>, <<"4", "4", "3">> }
Urls == [scheme : Schemes, userinfo : UserInfos, host : Hosts, port : Ports]

\* The allowlists of a source: none, one domain, two domains.
AllowLists ==
    { <<>>,
      << <<"e", "x", ".", "m", "a">> >>,
      << <<"x", ".", "m", "a">>, <<"e", "x", ".", "m", "a">> >> }

\* urlparse(url).scheme: the scheme in lower case
ParsedScheme(u) ==
    IF u.scheme = "HTTPS" THEN "https" ELSE u.scheme

\* urlparse(url).netloc: everything between "//" and the path
Netloc(u) ==
    (IF u.userinfo = <<>> THEN <<>> ELSE u.userinfo \o <<"@">>)
    \o u.host
    \o (IF u.port = <<>> THEN <<>> ELSE <<":">> \o u.port)

\* is_safe_url with a suffix test that has no dot boundary
is_safe_url_NoDot(u, allowed) ==
    IF ParsedScheme(u) \notin {"http", "https"} THEN FALSE
    ELSE LET netloc == Lower(Netloc(u))
         IN  \E i \in 1..Len(allowed) : EndsWith(netloc, allowed[i])

\* is_safe_url, lines 174-187
is_safe_url(u, allowed) ==
    IF ParsedScheme(u) \notin {"http", "https"} THEN FALSE
    ELSE LET netloc == Lower(Netloc(u))
         IN  \E i \in 1..Len(allowed) :
                \/ netloc = allowed[i]
                \/ EndsWith(netloc, <<".">> \o allowed[i])

InitSafeUrl ==
    /\ clock = StartDay
    /\ sources = <<>>
    /\ sentFile = NoStore
    /\ loadedKind = "unread"
    /\ failCount = 0
    /\ alerts = 0
    /\ fatalAlertSent = FALSE
    /\ pc = "is_safe_url"
    /\ src = 0
    /\ fetched = "none"
    /\ articles = <<>>
    /\ new_articles = <<>>
    /\ idx = 0
    /\ sent_urls = {}
    /\ today_str = 0
    /\ attempted = <<>>
    /\ deliveries = [l \in Links |-> 0]
    /\ undelivered = {}
    /\ fetchLog = <<>>
    /\ creds = TRUE
    /\ events = <<>>
    /\ NotFormatting
    /\ NoDetail
    /\ url \in Urls
    /\ allowed_domains \in AllowLists
    /\ is_safe = "unset"

mainVars == <<clock, sources, files, alerts, fatalAlertSent, locals, history>>

\* One call of is_safe_url
CheckUrl ==
    /\ pc = "is_safe_url"
    /\ is_safe' = is_safe_url(url, allowed_domains)
    /\ pc' = "returned"
    /\ UNCHANGED <<mainVars, creds, allowed_domains, events, url, article,
                   payload, detail>>

NextSafeUrl == CheckUrl

SpecSafeUrl == InitSafeUrl /\ [][NextSafeUrl]_vars

\* -------------------------------------- the send loop and send_article
\* One source: the parser validates the image URLs it extracted, main() sends
\* every article (all are new), send_article probes the image and calls
\* sendPhoto or sendMessage. events records, in order, what happened:
\* "call" (send_article is called), "HEAD", "sendPhoto", "sendMessage" (a
\* network request and its outcome), "returned" / "except" (how the call
\* ended in main()) and "sleep" (the pacing delay).
NoImage == <<>>

GoodHost == <<"e", "x", ".", "m", "a">>
LookalikeHost == <<"c", "e", "x", ".", "m", "a">>

\* Image URLs a page or feed can carry.
ImageUrls ==
    { [scheme |-> "https", userinfo |-> <<>>, host |-> GoodHost, port |-> <<>>],
      [scheme |-> "https", userinfo |-> <<>>, host |-> LookalikeHost,
       port |-> <<>>],
      [scheme |-> "ftp", userinfo |-> <<>>, host |-> GoodHost, port |-> <<>>] }

\* What the parser extracts before it validates: article i has link i and an
\* image URL, or none.
Extracted ==
    UNION {[1..n -> ImageUrls \cup {NoImage}] : n \in 1..MaxQueue}

Event(op, link, image, outcome) ==
    [op |-> op, link |-> link, url |-> image, outcome |-> outcome]

\* parse_html_source lines 329-332, parse_wpjson_source lines 413-416
ValidatedImage(image, allowed) ==
    IF image # NoImage /\ ~is_safe_url(image, allowed) THEN NoImage ELSE image

InitSend ==
    /\ clock = StartDay
    /\ sources = <<>>
    /\ sentFile = NoStore
    /\ loadedKind = "none"
    /\ failCount = 0
    /\ alerts = 0
    /\ fatalAlertSent = FALSE
    /\ pc = "extract"
    /\ src = 1
    /\ fetched \in Extracted
    /\ articles = <<>>
    /\ new_articles = <<>>
    /\ idx = 0
    /\ sent_urls = {}
    /\ today_str = StartDay
    /\ attempted = <<>>
    /\ deliveries = [l \in Links |-> 0]
    /\ undelivered = {}
    /\ fetchLog = <<>>
    /\ creds \in BOOLEAN
    /\ allowed_domains \in {<<>>, <<GoodHost>>}
    /\ events = <<>>
    /\ NotChecking /\ NotFormatting /\ NoDetail

sendFixed == <<clock, sources, failCount, loadedKind, alerts, fatalAlertSent,
               src, fetched, today_str, attempted, deliveries, undelivered,
               fetchLog, creds, allowed_domains, url, is_safe, article,
               payload, detail>>

\* The parser builds the article list; main() lines 588-597 keep all of it.
ExtractImages ==
    /\ pc = "extract"
    /\ articles' = [i \in 1..Len(fetched) |->
                       [link |-> i,
                        image_url |-> ValidatedImage(fetched[i],
                                                     allowed_domains)]]
    /\ new_articles' = articles'
    /\ idx' = 1
    /\ pc' = "send"
    /\ UNCHANGED <<sendFixed, sentFile, sent_urls, events>>

\* How a step of send_article goes on: it returns (main() line 604 is next),
\* it raises (main() lines 608-609 catch it and the loop takes the next
\* article), or it continues at another step.
Leave(next, ev) ==
    IF next = "return"
    THEN /\ events' = Append(ev, Event("returned", idx, NoImage, "ok"))
         /\ pc' = "persist"
         /\ idx' = idx
    ELSE IF next = "raise"
    THEN /\ events' = Append(ev, Event("except", idx, NoImage, "failed"))
         /\ pc' = "send"
         /\ idx' = idx + 1
    ELSE /\ events' = ev
         /\ pc' = next
         /\ idx' = idx

\* send_article lines 467-470: what follows the credentials test
AfterCredentials(present, image) ==
    IF ~present THEN "raise"
    ELSE IF image # NoImage THEN "probe" ELSE "text"

\* main() line 603 and send_article lines 467-505
SendArticleCalled ==
    /\ pc = "send"
    /\ idx <= Len(new_articles)
    /\ Leave(AfterCredentials(creds, new_articles[idx].image_url),
             Append(events, Event("call", idx, NoImage, "ok")))
    /\ UNCHANGED <<sendFixed, sentFile, sent_urls, articles, new_articles>>

\* A probe whose status is not looked at
AfterProbe_AnyStatus(outcome) ==
    IF outcome \in {"image", "status"} THEN "photo" ELSE "text"

\* send_article lines 507-509 and 519-520: what follows the HEAD probe.
\* outcome "image": status 200 and an image content type; "not_image": status
\* 200 and another content type; "status": another status; "error": the
\* request raised.
AfterProbe(outcome) ==
    IF outcome = "image" THEN "photo" ELSE "text"

\* send_article lines 506-509
ProbeImage ==
    /\ pc = "probe"
    /\ \E outcome \in {"image", "not_image", "status", "error"} :
          Leave(AfterProbe(outcome),
                Append(events, Event("HEAD", idx, new_articles[idx].image_url,
                                     outcome)))
    /\ UNCHANGED <<sendFixed, sentFile, sent_urls, articles, new_articles>>

\* A photo send whose failure is not caught
AfterPhoto_Raises(ok) == IF ok THEN "return" ELSE "raise"

\* send_article lines 517-520: what follows the sendPhoto call
AfterPhoto(ok) == IF ok THEN "return" ELSE "text"

\* send_article lines 510-518: telegram_request(sendPhoto) returns or raises
SendPhoto ==
    /\ pc = "photo"
    /\ \E ok \in BOOLEAN :
          Leave(AfterPhoto(ok),
                Append(events,
                       Event("sendPhoto", idx, new_articles[idx].image_url,
                             IF ok THEN "ok" ELSE "failed")))
    /\ UNCHANGED <<sendFixed, sentFile, sent_urls, articles, new_articles>>

\* send_article lines 523-530: telegram_request(sendMessage) returns or raises
SendMessage ==
    /\ pc = "text"
    /\ \E ok \in BOOLEAN :
          Leave(IF ok THEN "return" ELSE "raise",
                Append(events, Event("sendMessage", idx, NoImage,
                                     IF ok THEN "ok" ELSE "failed")))
    /\ UNCHANGED <<sendFixed, sentFile, sent_urls, articles, new_articles>>

\* main() lines 604-607: sent_urls.add, save_sent, time.sleep(8)
MarkSentAndSleep ==
    /\ pc = "persist"
    /\ sent_urls' = SentAfterSuccess(sent_urls, new_articles[idx].link)
    /\ sentFile' = save_sent(sent_urls', clock)
    /\ events' = Append(events, Event("sleep", idx, NoImage, "ok"))
    /\ idx' = idx + 1
    /\ pc' = "send"
    /\ UNCHANGED <<sendFixed, articles, new_articles>>

\* main() lines 600 and 611: the loop is over
SendLoopEnds ==
    /\ pc = "send"
    /\ idx > Len(new_articles)
    /\ pc' = "done"
    /\ UNCHANGED <<sendFixed, sentFile, sent_urls, articles, new_articles,
                   idx, events>>

NextSend ==
    \/ ExtractImages
    \/ SendArticleCalled
    \/ ProbeImage
    \/ SendPhoto
    \/ SendMessage
    \/ MarkSentAndSleep
    \/ SendLoopEnds

SpecSend == InitSend /\ [][NextSend]_vars

\* ------------------------------------------------- message formatting
\* A raw text is known by its length and by how many of its characters an
\* escape replaces: "&", "<" or ">", the double quote, and the characters
\* that the Markdown escape prefixes with a backslash.
RawText(len, amps, angles, quotes, md) ==
    [len |-> len, amps |-> amps, angles |-> angles, quotes |-> quotes,
     md |-> md]

\* len(escape_html(text)): "&" becomes "&amp;", "<" "&lt;", ">" "&gt;"
EscapeHtmlLen(t) == t.len + 4 * t.amps + 3 * t.angles

\* send_article line 475: the link, with the double quote as "&quot;" too
EscapeLinkLen(t) == t.len + 4 * t.amps + 3 * t.angles + 5 * t.quotes

\* scrape_and_notify_multi.py _esc: a backslash before each special character
EscapeMdLen(t) == t.len + t.md

\* A message text is a sequence of pieces. A piece is a run of len characters
\* of one part of the message, which has `of` characters when complete.
Piece(part, len) == [part |-> part, len |-> len, of |-> len]

Whole(part, len) == IF len = 0 THEN <<>> ELSE <<Piece(part, len)>>

\* len(text)
RECURSIVE TextLen(_)
TextLen(text) ==
    IF text = <<>> THEN 0 ELSE Head(text).len + TextLen(Tail(text))

\* text[:n]
RECURSIVE Take(_, _)
Take(text, n) ==
    IF text = <<>> \/ n <= 0 THEN <<>>
    ELSE IF Head(text).len <= n
         THEN <<Head(text)>> \o Take(Tail(text), n - Head(text).len)
         ELSE <<[Head(text) EXCEPT !.len = n]>>

\* "\n".join(lines)
RECURSIVE Join(_)
Join(lines) ==
    IF lines = <<>> THEN <<>>
    ELSE IF Len(lines) = 1 THEN lines[1]
    ELSE lines[1] \o <<Piece("newline", 1)>> \o Join(Tail(lines))

\* send_article lines 480-487: base_caption
BaseCaption(a) ==
    Join(<< Whole("headline", EscapeHtmlLen(a.headline) + 7),
            <<>>,
            Whole("link", EscapeLinkLen(a.link) + 37),
            <<>>,
            Whole("attribution", 22) >>)

\* send_article line 488: available_for_desc
AvailableForDesc(a) == MAX_CAPTION - TextLen(BaseCaption(a)) - 2

\* send_article lines 472-501: caption
Caption(a) ==
    LET description == EscapeHtmlLen(a.description)
        available_for_desc == AvailableForDesc(a)
        shown == IF description > available_for_desc
                 THEN Take(Whole("description", description),
                           available_for_desc - 3)
                      \o <<Piece("marker", 3)>>
                 ELSE Whole("description", description)
    IN  Join(<< Whole("headline", EscapeHtmlLen(a.headline) + 7) >>
             \o (IF description > 0 /\ available_for_desc > 20
                 THEN << <<>>, shown >> ELSE <<>>)
             \o << <<>>,
                    Whole("link", EscapeLinkLen(a.link) + 37),
                    <<>>,
                    Whole("attribution", 22) >>)

\* send_article line 514: the caption of the photo call
PhotoCaption(a) == Caption(a)

\* send_article line 526: the text of the message call
MessageText(a) == Caption(a)

\* scrape_and_notify_multi.py _build_msg, lines 71-81: blank parts are dropped
build_msg(a) ==
    Join(SelectSeq(<< Whole("headline", EscapeMdLen(a.headline) + 2),
                      <<>>,
                      Whole("description", EscapeMdLen(a.description)),
                      <<>>,
                      Whole("link", EscapeMdLen(a.link) + 26),
                      <<>>,
                      Whole("attribution", 22) >>,
                   LAMBDA part : part # <<>>))

\* scrape_and_notify_multi.py _send, lines 94-95
MultiCaption(a) == Take(build_msg(a), 1024)
MultiFullMsg(a) == Take(build_msg(a), 4096)

\* The articles formatted: headlines, links and descriptions from short to
\* longer than a message may be, some with characters that the escapes expand.
Headlines ==
    { RawText(40, 0, 0, 0, 0), RawText(40, 2, 1, 0, 3),
      RawText(880, 0, 0, 0, 0), RawText(960, 0, 0, 0, 2),
      RawText(4100, 0, 0, 0, 0) }
LinkTexts == { RawText(60, 0, 0, 0, 4), RawText(60, 2, 0, 1, 6) }
Descriptions ==
    { RawText(0, 0, 0, 0, 0), RawText(30, 0, 0, 0, 1),
      RawText(852, 0, 0, 0, 0), RawText(853, 0, 0, 0, 0),
      RawText(840, 3, 0, 0, 9), RawText(3000, 0, 0, 0, 20),
      RawText(5000, 0, 0, 0, 0) }
FormatArticles ==
    [headline : Headlines, link : LinkTexts, description : Descriptions]

InitFormat ==
    /\ clock = StartDay
    /\ sources = <<>>
    /\ sentFile = NoStore
    /\ loadedKind = "unread"
    /\ failCount = 0
    /\ alerts = 0
    /\ fatalAlertSent = FALSE
    /\ pc = "format"
    /\ src = 0
    /\ fetched = "none"
    /\ articles = <<>>
    /\ new_articles = <<>>
    /\ idx = 0
    /\ sent_urls = {}
    /\ today_str = 0
    /\ attempted = <<>>
    /\ deliveries = [l \in Links |-> 0]
    /\ undelivered = {}
    /\ fetchLog = <<>>
    /\ NotSending /\ NotChecking /\ NoDetail
    /\ article \in FormatArticles
    /\ payload = <<>>

\* The API call made with the formatted text.
Formatted(script, call, text) ==
    /\ pc = "format"
    /\ payload' = [script |-> script, call |-> call, text |-> text]
    /\ pc' = "formatted"
    /\ UNCHANGED <<mainVars, creds, allowed_domains, events, url, is_safe,
                   article, detail>>

\* send_article lines 510-517
SendArticlePhoto ==
    Formatted("scrape_and_notify", "sendPhoto", PhotoCaption(article))

\* send_article lines 523-530
SendArticleMessage ==
    Formatted("scrape_and_notify", "sendMessage", MessageText(article))

\* scrape_and_notify_multi.py _send lines 101-111
MultiSendPhoto ==
    Formatted("scrape_and_notify_multi", "sendPhoto", MultiCaption(article))

\* scrape_and_notify_multi.py _send lines 116-125
MultiSendMessage ==
    Formatted("scrape_and_notify_multi", "sendMessage", MultiFullMsg(article))

NextFormat ==
    \/ SendArticlePhoto
    \/ SendArticleMessage
    \/ MultiSendPhoto
    \/ MultiSendMessage

SpecFormat == InitFormat /\ [][NextFormat]_vars

\* ------------------------------------ save_sent / save_fetch_failures
\* One call of save_sent or of save_fetch_failures, step by step, with the
\* process killed at any step. saving.target names the file written
\* ("sent": sent_articles.json, "failures": fetch_failures.json).
\* A file that holds part of a JSON text is Partial.
Partial == [kind |-> "partial", date |-> 0, urls |-> <<>>]
Empty == [kind |-> "empty", date |-> 0, urls |-> <<>>]

\* json.dump({"count": n}): the counter file as a content
CountFile(n) == [kind |-> "count", date |-> 0, urls |-> <<n>>]

\* The content of the target file of the save under way.
TargetContent ==
    IF saving.target = "sent" THEN sentFile
    ELSE IF failCount >= 0 THEN CountFile(failCount)
    ELSE IF failCount = -1 THEN Partial ELSE Empty

\* A save that writes the target file itself
WrittenPath_InPlace(target) == target

\* save_sent lines 93-95, save_fetch_failures lines 54-56: the file the
\* content is written to is the one mkstemp made
WrittenPath(target) == "tmp"

\* The target file gets content.
SetTarget(target, content) ==
    IF target = "sent"
    THEN sentFile' = content /\ UNCHANGED failCount
    ELSE /\ failCount' = IF content.kind = "count" THEN content.urls[1]
                         ELSE IF content.kind = "partial" THEN -1 ELSE -2
         /\ UNCHANGED sentFile

\* The file at path gets content.
WriteFile(path, content) ==
    IF path = "tmp"
    THEN tmpFile' = content /\ UNCHANGED <<sentFile, failCount>>
    ELSE SetTarget(path, content) /\ UNCHANGED tmpFile

InitSave ==
    /\ clock = StartDay
    /\ sources = <<>>
    /\ sentFile \in InitialStores
    /\ loadedKind = "unread"
    /\ failCount \in 0..(FETCH_FAILURE_THRESHOLD - 1)
    /\ alerts = 0
    /\ fatalAlertSent = FALSE
    /\ pc = "mkstemp"
    /\ src = 0
    /\ fetched = "none"
    /\ articles = <<>>
    /\ new_articles = <<>>
    /\ idx = 0
    /\ sent_urls = {}
    /\ today_str = 0
    /\ attempted = <<>>
    /\ deliveries = [l \in Links |-> 0]
    /\ undelivered = {}
    /\ fetchLog = <<>>
    /\ NotSending /\ NotChecking /\ NotFormatting /\ NotCalling
    /\ tmpFile = Absent
    /\ \/ \E urls \in LinkSets \ {{}} :
             saving = [target |-> "sent", old |-> sentFile,
                       new |-> save_sent(urls, clock)]
       \/ \E count \in 0..FETCH_FAILURE_THRESHOLD :
             saving = [target |-> "failures", old |-> CountFile(failCount),
                       new |-> CountFile(count)]

saveFixed == <<clock, sources, loadedKind, alerts, fatalAlertSent, locals,
               deliveries, undelivered, fetchLog, creds, allowed_domains,
               events, url, is_safe, article, payload, saving, request,
               extraction, multi>>

\* tempfile.mkstemp(dir=_SCRIPT_DIR, suffix=".tmp"): an empty file
Mkstemp ==
    /\ pc = "mkstemp"
    /\ tmpFile' = Empty
    /\ pc' = "write"
    /\ UNCHANGED <<saveFixed, sentFile, failCount>>

\* json.dump has written a part of the text
WriteSome ==
    /\ pc = "write"
    /\ WriteFile(WrittenPath(saving.target), Partial)
    /\ pc' = "flush"
    /\ UNCHANGED saveFixed

\* the with block ends: the whole text is in the file
WriteAll ==
    /\ pc \in {"write", "flush"}
    /\ WriteFile(WrittenPath(saving.target), saving.new)
    /\ pc' = "replace"
    /\ UNCHANGED saveFixed

\* os.replace(tmp_path, target): the rename, one step of the file system
Replace ==
    /\ pc = "replace"
    /\ SetTarget(saving.target, tmpFile)
    /\ tmpFile' = Absent
    /\ pc' = "saved"
    /\ UNCHANGED saveFixed

\* except Exception (lines 59-62, 98-101): the write or the rename raised;
\* the temporary file is removed and the exception goes on
SaveRaises ==
    /\ pc \in {"write", "flush", "replace"}
    /\ tmpFile' = Absent
    /\ pc' = "save_raised"
    /\ UNCHANGED <<saveFixed, sentFile, failCount>>

\* The process is killed during the save.
CrashInSave ==
    /\ pc \in {"mkstemp", "write", "flush", "replace"}
    /\ pc' = "save_crashed"
    /\ UNCHANGED <<saveFixed, sentFile, failCount, tmpFile>>

NextSave ==
    \/ Mkstemp
    \/ WriteSome
    \/ WriteAll
    \/ Replace
    \/ SaveRaises
    \/ CrashInSave

SpecSave == InitSave /\ [][NextSave]_vars

\* ------------------------------------------------------ telegram_request
\* One call of telegram_request(url, payload, max_retries), POST by POST.
\* request.posts is what each requests.post did, request.sleeps the seconds of
\* each time.sleep, in order; request.resp is the status of the response that
\* resp is bound to (0: unbound), request.last_error whether last_error is set.
retry_codes == {429, 500, 502, 503, 504}

StatusCodes == {200, 400, 429, 503}

\* The Retry-After header of a response: absent, a number of seconds, or an
\* HTTP date.
RetryAfterHeaders == {"absent", "1", "30", "date"}

\* line 442, int(resp.headers.get("Retry-After", 5)); -1: int raises ValueError
retry_after(header) ==
    CASE header = "absent" -> 5
      [] header = "1" -> 1
      [] header = "30" -> 30
      [] OTHER -> -1

\* resp.raise_for_status() raises HTTPError
raise_for_status(status) == status >= 400 /\ status < 600

Response(status, header) ==
    [kind |-> "response", status |-> status, header |-> header]
NoResponse == [kind |-> "exception", status |-> 0, header |-> "absent"]

AtRest ==
    /\ clock = StartDay
    /\ sources = <<>>
    /\ sentFile = NoStore
    /\ loadedKind = "unread"
    /\ failCount = 0
    /\ alerts = 0
    /\ fatalAlertSent = FALSE
    /\ src = 0
    /\ fetched = "none"
    /\ articles = <<>>
    /\ new_articles = <<>>
    /\ idx = 0
    /\ sent_urls = {}
    /\ today_str = 0
    /\ attempted = <<>>
    /\ deliveries = [l \in Links |-> 0]
    /\ undelivered = {}
    /\ fetchLog = <<>>

InitTelegram ==
    /\ AtRest
    /\ NotSending /\ NotChecking /\ NotFormatting
    /\ tmpFile = Absent /\ saving = <<>> /\ extraction = <<>> /\ multi = <<>>
    /\ pc = "request"
    /\ \E max_retries \in 0..MaxTries :
          request = [max_retries |-> max_retries, attempt |-> 0,
                     last_error |-> FALSE, resp |-> 0, posts |-> <<>>,
                     sleeps |-> <<>>, error |-> "none"]

telegramFixed == <<clock, sources, files, alerts, fatalAlertSent, locals,
                   history, creds, allowed_domains, events, url, is_safe,
                   article, payload, tmpFile, saving, extraction, multi>>

InLoop == pc = "request" /\ request.attempt < request.max_retries

\* lines 448-452: requests.post raised a RequestException (a timeout, a
\* refused connection); it is kept, and the loop goes on after 5 seconds
PostRaises ==
    /\ InLoop
    /\ request' = [request EXCEPT !.attempt = @ + 1,
                                  !.last_error = TRUE,
                                  !.posts = Append(@, NoResponse),
                                  !.sleeps = Append(@, 5)]
    /\ UNCHANGED <<pc, telegramFixed>>

\* lines 441-445: a response with a status of retry_codes; the loop goes on
\* after retry_after seconds
RetryStatus(status, header) ==
    /\ InLoop
    /\ status \in retry_codes
    /\ retry_after(header) >= 0
    /\ request' = [request EXCEPT !.attempt = @ + 1,
                                  !.resp = status,
                                  !.posts = Append(@, Response(status, header)),
                                  !.sleeps = Append(@, retry_after(header))]
    /\ UNCHANGED <<pc, telegramFixed>>

\* line 442: int() of a Retry-After that is no number raises ValueError,
\* which no except clause of the function catches
RetryHintRaises(status, header) ==
    /\ InLoop
    /\ status \in retry_codes
    /\ retry_after(header) < 0
    /\ request' = [request EXCEPT !.attempt = @ + 1,
                                  !.resp = status,
                                  !.posts = Append(@, Response(status, header)),
                                  !.error = "ValueError"]
    /\ pc' = "request_raised"
    /\ UNCHANGED telegramFixed

\* lines 446, 448-452: raise_for_status raises HTTPError, a RequestException:
\* it is kept, and the loop goes on after 5 seconds
ErrorStatus(status) ==
    /\ InLoop
    /\ status \notin retry_codes
    /\ raise_for_status(status)
    /\ request' = [request EXCEPT !.attempt = @ + 1,
                                  !.resp = status,
                                  !.last_error = TRUE,
                                  !.posts = Append(@, Response(status, "absent")),
                                  !.sleeps = Append(@, 5)]
    /\ UNCHANGED <<pc, telegramFixed>>

\* lines 446-447: return resp
PostOk(status) ==
    /\ InLoop
    /\ status \notin retry_codes
    /\ ~raise_for_status(status)
    /\ request' = [request EXCEPT !.attempt = @ + 1,
                                  !.resp = status,
                                  !.posts = Append(@, Response(status, "absent"))]
    /\ pc' = "request_returned"
    /\ UNCHANGED telegramFixed

\* A function that hands back the last response when the attempts are used up
LoopExhausted_Returns(last_error, resp) == "request_returned"

\* lines 454-457: how the function ends when the loop has run out
LoopExhausted(last_error, resp) ==
    IF last_error \/ resp = 0 \/ raise_for_status(resp)
    THEN "request_raised" ELSE "request_returned"

LoopEnds ==
    /\ pc = "request"
    /\ request.attempt = request.max_retries
    /\ pc' = LoopExhausted(request.last_error, request.resp)
    /\ request' = [request EXCEPT !.error =
                      IF request.last_error THEN "RequestException"
                      ELSE IF request.resp = 0 THEN "UnboundLocalError"
                      ELSE IF raise_for_status(request.resp) THEN "HTTPError"
                      ELSE "none"]
    /\ UNCHANGED telegramFixed

NextTelegram ==
    \/ PostRaises
    \/ \E status \in StatusCodes, header \in RetryAfterHeaders :
          \/ RetryStatus(status, header)
          \/ RetryHintRaises(status, header)
    \/ \E status \in StatusCodes : ErrorStatus(status) \/ PostOk(status)
    \/ LoopEnds

SpecTelegram == InitTelegram /\ [][NextTelegram]_vars

\* The function runs in one thread with nothing to wait for but its own
\* sleeps: a step that can be taken is taken.
SpecTelegramFair == SpecTelegram /\ WF_vars(NextTelegram)

\* ------------------------------------------- parse_html_source on a page
\* One call of parse_html_source on a page of any containers: extraction.page
\* is what soup.select returned, extraction.articles what the call returned.
InitPage ==
    /\ AtRest
    /\ NotSending /\ NotChecking /\ NotFormatting
    /\ tmpFile = Absent /\ saving = <<>> /\ request = <<>> /\ multi = <<>>
    /\ pc = "parse_page"
    /\ \E page \in SeqsUpTo(Containers(StartDay), MaxPosts) :
          extraction = [page |-> page, articles |-> <<>>]

\* lines 274-347: the loop over the containers, and return articles
ParsePage ==
    /\ pc = "parse_page"
    /\ extraction' = [extraction EXCEPT
                         !.articles = parse_html_source(extraction.page)]
    /\ pc' = "parsed_page"
    /\ UNCHANGED <<clock, sources, files, alerts, fatalAlertSent, locals,
                   history, creds, allowed_domains, events, url, is_safe,
                   article, payload, tmpFile, saving, request, multi>>

NextPage == ParsePage

SpecPage == InitPage /\ [][NextPage]_vars

\* ------------------------------------- a feed through parser and filter
\* One feed source of main(): parse_wpjson_source on the decoded feed, then
\* the filter of main(). extraction.today_str is date.today() of main(),
\* extraction.today_utc the UTC date the parser reads; in Morocco (UTC+1, or
\* UTC) the UTC date is the local date or the day before. The feed is one of
\* that UTC day: no post is dated after it.
InitFeed ==
    /\ AtRest
    /\ NotSending /\ NotChecking /\ NotFormatting
    /\ tmpFile = Absent /\ saving = <<>> /\ request = <<>> /\ multi = <<>>
    /\ pc = "parse_feed"
    /\ \E today_utc \in {StartDay - 1, StartDay}, sent \in LinkSets :
       \E data \in Feeds(today_utc) :
          extraction = [data |-> data, today_str |-> StartDay,
                        today_utc |-> today_utc, sent_urls |-> sent,
                        articles |-> <<>>, new_articles |-> <<>>]

feedFixed == <<clock, sources, files, alerts, fatalAlertSent, locals, history,
               creds, allowed_domains, events, url, is_safe, article, payload,
               tmpFile, saving, request, multi>>

\* lines 366-428: the loop over the posts, and return articles
ParseFeed ==
    /\ pc = "parse_feed"
    /\ extraction' = [extraction EXCEPT !.articles =
                         parse_wpjson_source(extraction.data,
                                             extraction.today_utc)]
    /\ pc' = "filter_feed"
    /\ UNCHANGED feedFixed

\* main() lines 588-595: the filter of the articles of the source
FilterFeed ==
    /\ pc = "filter_feed"
    /\ extraction' = [extraction EXCEPT !.new_articles =
                         FilterNew(extraction.articles, extraction.sent_urls,
                                   extraction.today_str)]
    /\ pc' = "filtered_feed"
    /\ UNCHANGED feedFixed

NextFeed == ParseFeed \/ FilterFeed

SpecFeed == InitFeed /\ [][NextFeed]_vars

\* ------------------------------------------- the records of the parsers
\* The two parsers with the fields of their records in full. A link text is
\* site (it starts with a scheme and a host) and path (0: no path); the empty
\* text has neither. headline, description and image say whether the text is
\* non-empty (the image: whether a URL that passes is_safe_url was found).
LinkText(site, path) == [site |-> site, path |-> path]
LinkRaws == [site : BOOLEAN, path : 0..NumLinks]
EmptyText == LinkText(FALSE, 0)

\* urllib.parse.urljoin(base_url, link_raw)
urljoin(base_url, link_raw) ==
    IF link_raw.site THEN link_raw
    ELSE LinkText(base_url.site,
                  IF link_raw.path # 0 THEN link_raw.path ELSE base_url.path)

\* source.get("base_url", ""): the site of the source, or ""
BaseUrls == {LinkText(TRUE, 0), EmptyText}

Record(headline, link, description, image) ==
    [headline |-> headline, link |-> link, description |-> description,
     image |-> image]

PageContainers ==
    [tag : BOOLEAN, link_raw : LinkRaws, headline : BOOLEAN,
     description : BOOLEAN, image : BOOLEAN]

\* parse_html_source lines 278-345: the loop over the containers
RECURSIVE ParseHtmlRecords(_, _, _)
ParseHtmlRecords(base_url, containers, seen_links) ==
    IF containers = <<>> THEN <<>>
    ELSE LET c == Head(containers)
             rest == Tail(containers)
             link == urljoin(base_url, c.link_raw)
         IN  IF ~c.tag THEN ParseHtmlRecords(base_url, rest, seen_links)
             ELSE IF link = EmptyText \/ link \in seen_links
                  THEN ParseHtmlRecords(base_url, rest, seen_links)
             ELSE IF ~c.headline
                  THEN ParseHtmlRecords(base_url, rest, seen_links \cup {link})
             ELSE <<Record(c.headline, link, c.description, c.image)>>
                  \o ParseHtmlRecords(base_url, rest, seen_links \cup {link})

\* A post of a feed: title is whether clean_html_text of title.rendered is
\* non-empty, link is post.get("link", "").
FeedPosts(d) ==
    [date_gmt : {0, d - 1, d}, title : BOOLEAN, link : LinkRaws,
     excerpt : BOOLEAN, image : BOOLEAN]

\* parse_wpjson_source lines 370-426: the loop over the posts
RECURSIVE ParseWpRecords(_, _)
ParseWpRecords(data, today_utc) ==
    IF data = <<>> THEN <<>>
    ELSE LET post == Head(data)
             rest == ParseWpRecords(Tail(data), today_utc)
         IN  IF post.date_gmt = 0 THEN rest
             ELSE IF post.date_gmt # today_utc THEN rest
             ELSE <<Record(post.title, post.link, post.excerpt, post.image)>>
                  \o rest

InitRecords ==
    /\ AtRest
    /\ NotSending /\ NotChecking /\ NotFormatting
    /\ tmpFile = Absent /\ saving = <<>> /\ request = <<>> /\ multi = <<>>
    /\ pc = "extract"
    /\ \/ \E base_url \in BaseUrls,
             containers \in SeqsUpTo(PageContainers, MaxPosts) :
             extraction = [type |-> "html", base_url |-> base_url,
                           input |-> containers, articles |-> <<>>]
       \/ \E data \in SeqsUpTo(FeedPosts(StartDay), MaxPosts) :
             extraction = [type |-> "wp-json", base_url |-> EmptyText,
                           input |-> data, articles |-> <<>>]

recordsFixed == <<clock, sources, files, alerts, fatalAlertSent, locals,
                  history, creds, allowed_domains, events, url, is_safe,
                  article, payload, tmpFile, saving, request, multi>>

\* parse_html_source returns
ExtractHtml ==
    /\ pc = "extract"
    /\ extraction.type = "html"
    /\ extraction' = [extraction EXCEPT !.articles =
                         ParseHtmlRecords(extraction.base_url,
                                          extraction.input, {})]
    /\ pc' = "extracted"
    /\ UNCHANGED recordsFixed

\* parse_wpjson_source returns
ExtractFeed ==
    /\ pc = "extract"
    /\ extraction.type = "wp-json"
    /\ extraction' = [extraction EXCEPT !.articles =
                         ParseWpRecords(extraction.input, StartDay)]
    /\ pc' = "extracted"
    /\ UNCHANGED recordsFixed

NextRecords == ExtractHtml \/ ExtractFeed

SpecRecords == InitRecords /\ [][NextRecords]_vars

\* ------------------------------------------ the description, escaped and cut
\* send_article lines 473 and 491-493 on a description given as runs: a run
\* of len plain characters (kind "text") or one of the characters "&", "<",
\* ">". The escaped text is a text of pieces, one piece for each run.
Run(kind, len) == [kind |-> kind, len |-> len]

\* escape_html(text): "&" becomes "&amp;", "<" "&lt;", ">" "&gt;"
RECURSIVE escape_html(_)
escape_html(runs) ==
    IF runs = <<>> THEN <<>>
    ELSE LET r == Head(runs)
         IN  (CASE r.kind = "&" -> <<Piece("&amp;", 5)>>
                [] r.kind = "<" -> <<Piece("&lt;", 4)>>
                [] r.kind = ">" -> <<Piece("&gt;", 4)>>
                [] OTHER -> Whole("text", r.len))
             \o escape_html(Tail(runs))

\* send_article lines 492-493: the description cut to available_for_desc
Fit(description, available_for_desc) ==
    IF TextLen(description) > available_for_desc
    THEN Take(description, available_for_desc - 3) \o <<Piece("marker", 3)>>
    ELSE description

\* Descriptions about as long as the caption allows, with one special
\* character near the cut.
EscapeArticles ==
    [headline : {RawText(40, 0, 0, 0, 0), RawText(40, 2, 1, 0, 3)},
     link : {RawText(60, 0, 0, 0, 4)},
     description : {<<Run("text", before), Run(special, 1), Run("text", after)>> :
                       before \in 830..852, special \in {"&", "<", ">"},
                       after \in {0, 20}}]

InitEscape ==
    /\ AtRest
    /\ NotSending /\ NotChecking /\ NoDetail
    /\ pc = "escape"
    /\ article \in EscapeArticles
    /\ payload = <<>>

\* send_article lines 473, 488-494: the description that goes into the message
FitDescription ==
    /\ pc = "escape"
    /\ AvailableForDesc(article) > 20
    /\ payload' = Fit(escape_html(article.description),
                      AvailableForDesc(article))
    /\ pc' = "escaped"
    /\ UNCHANGED <<mainVars, creds, allowed_domains, events, url, is_safe,
                   article, detail>>

NextEscape == FitDescription

SpecEscape == InitEscape /\ [][NextEscape]_vars

\* ------------------------------------- scrape_and_notify_multi.py main()
\* One run of main() of scrape_and_notify_multi.py. multi.file is the list in
\* CACHE_FILE, multi.cache the set main() holds, multi.sent the links whose
\* _send returned in this run. TODAY is StartDay.
\* What a parser returns for one source
MultiArticles ==
    SeqsUpTo([link : Links, pdate : {StartDay - 1, StartDay}], MaxPosts)

\* lines 128-129: _load_cache()
_load_cache(file) == file

\* lines 131-132: _save_cache(cache)
_save_cache(cache) == cache

InitMulti ==
    /\ AtRest
    /\ NotSending /\ NotChecking /\ NotFormatting
    /\ tmpFile = Absent /\ saving = <<>> /\ request = <<>> /\ extraction = <<>>
    /\ pc = "multi_load"
    /\ \E file \in LinkSets, count \in 1..MaxSources :
          multi = [file |-> file, sources |-> count, cache |-> {}, src |-> 0,
                   arts |-> <<>>, a |-> 0, sent |-> {}]

multiFixed == <<clock, sources, files, alerts, fatalAlertSent, locals, history,
                creds, allowed_domains, events, url, is_safe, article, payload,
                tmpFile, saving, request, extraction>>

\* lines 261-262: cache = _load_cache(); the sources are read
MultiLoad ==
    /\ pc = "multi_load"
    /\ multi' = [multi EXCEPT !.cache = _load_cache(multi.file), !.src = 1]
    /\ pc' = "multi_parse"
    /\ UNCHANGED multiFixed

\* lines 268-271: the parser of the source returns arts
MultiParsed(arts) ==
    /\ pc = "multi_parse"
    /\ multi.src <= multi.sources
    /\ multi' = [multi EXCEPT !.arts = arts, !.a = 1]
    /\ pc' = "multi_send"
    /\ UNCHANGED multiFixed

\* lines 160, 225: _safe_get raises in the parser (raise_for_status, or the
\* request failed after its retries); nothing in main() catches it
MultiParseRaises ==
    /\ pc = "multi_parse"
    /\ multi.src <= multi.sources
    /\ pc' = "multi_raised"
    /\ UNCHANGED <<multi, multiFixed>>

MultiInLoop == pc = "multi_send" /\ multi.a <= Len(multi.arts)

\* lines 279-282: the link is in the cache, or the article is not of today
MultiSkip ==
    /\ MultiInLoop
    /\ \/ multi.arts[multi.a].link \in multi.cache
       \/ multi.arts[multi.a].pdate # StartDay
    /\ multi' = [multi EXCEPT !.a = @ + 1]
    /\ UNCHANGED <<pc, multiFixed>>

\* lines 284-287: _send returned; cache.add(link), time.sleep(8)
MultiSent ==
    /\ MultiInLoop
    /\ multi.arts[multi.a].link \notin multi.cache
    /\ multi.arts[multi.a].pdate = StartDay
    /\ multi' = [multi EXCEPT !.cache = @ \cup {multi.arts[multi.a].link},
                              !.sent = @ \cup {multi.arts[multi.a].link},
                              !.a = @ + 1]
    /\ UNCHANGED <<pc, multiFixed>>

\* lines 288-289: _send raised; the error is printed
MultiSendFailed ==
    /\ MultiInLoop
    /\ multi.arts[multi.a].link \notin multi.cache
    /\ multi.arts[multi.a].pdate = StartDay
    /\ multi' = [multi EXCEPT !.a = @ + 1]
    /\ UNCHANGED <<pc, multiFixed>>

\* line 264: the next source
MultiNextSource ==
    /\ pc = "multi_send"
    /\ multi.a > Len(multi.arts)
    /\ multi' = [multi EXCEPT !.src = @ + 1, !.arts = <<>>, !.a = 0]
    /\ pc' = "multi_parse"
    /\ UNCHANGED multiFixed

\* line 291: _save_cache(cache), after the last source
MultiSave ==
    /\ pc = "multi_parse"
    /\ multi.src > multi.sources
    /\ multi' = [multi EXCEPT !.file = _save_cache(multi.cache)]
    /\ pc' = "multi_done"
    /\ UNCHANGED multiFixed

NextMulti ==
    \/ MultiLoad
    \/ \E arts \in MultiArticles : MultiParsed(arts)
    \/ MultiParseRaises
    \/ MultiSkip
    \/ MultiSent
    \/ MultiSendFailed
    \/ MultiNextSource
    \/ MultiSave

SpecMulti == InitMulti /\ [][NextMulti]_vars

\* ================================================================ claims
StoredLinks == Range(sentFile.urls)

\* C1: no link is delivered more than once (a run started from any store and
\* any reference date delivers each distinct link at most once, also a link
\* that the extracted list holds twice).
C1_AtMostOncePerLink == \A l \in Links : deliveries[l] <= 1

C3_FailedStep ==
    (pc = "send" /\ Len(attempted') = Len(attempted) + 1)
    => /\ pc' \in {"send", "persist"}
       /\ src' = src
       /\ pc' = "send" => /\ sent_urls' = sent_urls
                          /\ sentFile' = sentFile
                          /\ idx' = idx + 1

C3_StillEligible ==
    \A l \in undelivered :
        /\ l \notin sent_urls
        /\ \A d \in clock..MaxDay :
              l \notin (IF sentFile.kind = "list" \/
                           (sentFile.kind = "dict" /\ sentFile.date = d)
                        THEN StoredLinks ELSE {})

C3_FailureNotMarked == [][C3_FailedStep]_vars /\ []C3_StillEligible

C3_Witness ==
    /\ pc = "done"
    /\ undelivered # {}
    /\ DeliveredRun # {}
    /\ sentFile.kind = "dict"
    /\ sentFile.date = clock

\* C4: load_sent on a scoped store returns nothing when the stored date is
\* not the date of the call, and exactly the stored links when it is.
C4_LoadStep ==
    (pc = "load" /\ pc' = "today" /\ sentFile.kind = "dict")
    => sent_urls' = IF sentFile.date = clock THEN StoredLinks ELSE {}

C5_LegacyStep ==
    /\ (pc = "load" /\ pc' = "today" /\ sentFile.kind = "list")
       => sent_urls' = StoredLinks
    /\ (sentFile.kind = "list" /\ sentFile' # sentFile)
       => /\ sentFile'.kind = "dict"
          /\ sentFile'.date = clock
          /\ StoredLinks \subseteq Range(sentFile'.urls)

C5_LegacyUpgraded == [][C5_LegacyStep]_vars

C5_Witness ==
    /\ loadedKind = "list"
    /\ clock = MaxDay
    /\ sentFile.kind = "dict"
    /\ \E l \in StoredLinks : deliveries[l] = 0

\* C6: after a fetch that fails the counter is one more than before (0 once
\* the threshold is reached), and after a fetch that succeeds, of either
\* kind, it is 0.
C6_CounterFollowsFetch ==
    \A i \in 1..Len(fetchLog) :
        LET e == fetchLog[i]
        IN  IF e.ok THEN e.after = 0
            ELSE e.after = IF e.before + 1 >= FETCH_FAILURE_THRESHOLD
                           THEN 0 ELSE e.before + 1

\* C7: from a counter of 0, three failed fetches in a row alert once, on the
\* third, and leave 0; two failed fetches and then a successful one leave 0
\* and alert never.
C7_ThresholdAlert ==
    \A i \in 1..(Len(fetchLog) - 2) :
        LET a == fetchLog[i]
            b == fetchLog[i + 1]
            c == fetchLog[i + 2]
        IN  (a.before = 0 /\ ~a.ok /\ ~b.ok)
            => /\ ~a.alert /\ ~b.alert
               /\ ~c.ok => (c.alert /\ c.after = 0)
               /\ c.ok => (~c.alert /\ c.after = 0)

\* C8: a fetch that failed never ends the run: the source yields no article
\* and main() is in its loop.
C8_FetchFailureLocal ==
    fetched = "failed" => (articles = <<>> /\ pc \in {"send", "parse"})

\* C9: a source that lacks a required field never makes main() raise.
C9_MissingFieldLocal ==
    ~(pc = "raised" /\ sources[src].missing # "none")

\* C10: the filtered list holds, in order, exactly the articles whose link is
\* not in the dedup set and whose date is unknown or the reference date;
\* send_article is called for each of them, in order, before the next source.
C10Keep(a) ==
    /\ a.link \notin sent_urls
    /\ a.parsed_date = 0 \/ a.parsed_date = today_str

C10_FilterStep ==
    /\ (pc = "parse" /\ pc' = "send")
       => new_articles' = SelectSeq(articles', C10Keep)
    /\ (pc = "send" /\ pc' \in {"parse", "done"})
       => attempted = [i \in 1..Len(new_articles) |-> new_articles[i].link]

C10_FilterOrder == [][C10_FilterStep]_vars

C10_Witness ==
    /\ pc = "send"
    /\ idx > Len(new_articles)
    /\ Len(new_articles) < Len(articles)
    /\ \E i \in 1..Len(new_articles) :
          new_articles[i].parsed_date = 0 /\ attempted[i] = new_articles[i].link

\* C11: between the end of a send_article call, returned or raised, and the
\* next send_article call the pacing delay elapses.
C11_PacedAfterEveryAttempt ==
    \A i \in 1..Len(events) : \A j \in (i + 1)..Len(events) :
        (events[i].op \in {"returned", "except"} /\ events[j].op = "call")
        => \E k \in (i + 1)..(j - 1) : events[k].op = "sleep"

\* C12: with no source configured the run performs no fetch and no delivery,
\* leaves the dedup store as it was, sends one operator alert, and the process
\* exits with a non-zero status.
C12_NoSourcesAborts ==
    (sources = <<>> /\ pc # "start")
    => /\ fetched = "none"
       /\ DeliveredRun = {}
       /\ sentFile \in InitialStores
       /\ alerts = 1
       /\ ExitStatus # 0

\* C13: without the bot token or the channel identifier the first delivery
\* attempt stops the run: no second attempt is made and the run ends through
\* the top-level handler (alert, non-zero exit status).
C13_MissingCredsFatal ==
    (~creds /\ \E i \in 1..Len(events) : events[i].op = "call")
    => /\ Cardinality({i \in 1..Len(events) : events[i].op = "call"}) = 1
       /\ pc \in {"handler", "raised"}

\* C14: when an exception leaves main(), the handler calls send_alert, unless
\* the threshold alert of this run already went out, and then ends the process
\* with the exception of main() (non-zero status), whether or not the alert
\* send failed.
C14_HandlerStep ==
    pc = "handler"
    => /\ pc' = "raised"
       /\ alerts' = IF fatalAlertSent THEN alerts ELSE alerts + 1
       /\ ExitStatus' # 0

C14_HandlerReraises == [][C14_HandlerStep]_vars

C14_Witness == pc = "raised" /\ fatalAlertSent /\ alerts = 1

\* C14 as stated: the handler calls send_alert whenever an exception leaves
\* main().
C14_AlwaysAlertsStep ==
    pc = "handler" => (pc' = "raised" /\ alerts' = alerts + 1)

C14_AlwaysAlerts == [][C14_AlwaysAlertsStep]_vars

\* C16: is_safe_url returns true exactly when the scheme is http or https and
\* the host is an allowed domain or ends with "." and an allowed domain; a host
\* that ends with the domain text without the dot is rejected, and with an
\* empty allowlist every URL is rejected.
HostAllowed(host, allowed) ==
    \E i \in 1..Len(allowed) :
        \/ Lower(host) = allowed[i]
        \/ EndsWith(Lower(host), <<".">> \o allowed[i])

C16_SafeExactly ==
    pc = "returned"
    => /\ is_safe = (/\ ParsedScheme(url) \in {"http", "https"}
                     /\ HostAllowed(url.host, allowed_domains))
       /\ allowed_domains = <<>> => is_safe = FALSE

\* C16, the part that holds: only URLs of an allowed host with an http or
\* https scheme pass, and none passes an empty allowlist.
C16_SafeOnlyIf ==
    (pc = "returned" /\ is_safe = TRUE)
    => /\ ParsedScheme(url) \in {"http", "https"}
       /\ HostAllowed(url.host, allowed_domains)
       /\ allowed_domains # <<>>

\* C15: no HEAD probe and no sendPhoto is made with an image URL whose host is
\* not an allowed domain of the source (or whose scheme is not http/https); an
\* article whose extracted image URL fails the test has no image and no
\* request ever carries that URL.
UrlAllowed(u) ==
    /\ ParsedScheme(u) \in {"http", "https"}
    /\ HostAllowed(u.host, allowed_domains)

C17_TextIsNext(i) ==
    IF i < Len(events)
    THEN /\ events[i + 1].op = "sendMessage"
         /\ events[i + 1].link = events[i].link
    ELSE pc = "text" /\ idx = events[i].link

C17_PhotoFallsBackToText ==
    \A i \in 1..Len(events) :
        /\ events[i].op = "sendPhoto"
           => /\ i > 1
              /\ events[i - 1].op = "HEAD"
              /\ events[i - 1].outcome = "image"
              /\ events[i - 1].link = events[i].link
        /\ (\/ events[i].op = "HEAD" /\ events[i].outcome # "image"
            \/ events[i].op = "sendPhoto" /\ events[i].outcome = "failed")
           => C17_TextIsNext(i)

C17_Witness ==
    \E i \in 1..(Len(events) - 2) :
        /\ events[i].op = "sendPhoto"
        /\ events[i].outcome = "failed"
        /\ events[i + 1].op = "sendMessage"
        /\ events[i + 1].outcome = "ok"
        /\ events[i + 2].op = "returned"

\* C18: the caption send_article hands to the photo call has at most 1024
\* characters and the text it hands to the message call at most 4096, whatever
\* the headline, the link and the description.
C18_WithinLimits ==
    (pc = "formatted" /\ payload.script = "scrape_and_notify")
    => /\ payload.call = "sendPhoto" => TextLen(payload.text) <= 1024
       /\ payload.call = "sendMessage" => TextLen(payload.text) <= 4096

\* C19: when send_article sends the article as a text message and the
\* scaffold and the description together have at most 4096 characters, the
\* text holds the whole description, also above 1024 characters.
HasWhole(text, part) ==
    \E i \in 1..Len(text) : text[i].part = part /\ text[i].len = text[i].of

C19_FullTextVariant ==
    (/\ pc = "formatted"
     /\ payload.script = "scrape_and_notify"
     /\ payload.call = "sendMessage"
     /\ EscapeHtmlLen(article.description) > 0
     /\ TextLen(BaseCaption(article)) + EscapeHtmlLen(article.description)
           <= 4096)
    => /\ HasWhole(payload.text, "description")
       /\ \A i \in 1..Len(payload.text) :
             payload.text[i].part = "description"
             => payload.text[i].of = EscapeHtmlLen(article.description)

\* C20: every message holds the whole bold headline, link line and
\* attribution line; a description that is cut is followed by the "..."
\* marker; and where fewer than the minimum of characters are left for it,
\* the description and its blank line are left out.
C20_Scaffold(text) ==
    /\ HasWhole(text, "headline")
    /\ HasWhole(text, "link")
    /\ HasWhole(text, "attribution")

C20_CutIsMarked(text) ==
    \A i \in 1..Len(text) :
        (text[i].part = "description" /\ text[i].len < text[i].of)
        => (i < Len(text) /\ text[i + 1].part = "marker")

C20_OnlyDescriptionShortened ==
    pc = "formatted"
    => /\ C20_Scaffold(payload.text)
       /\ C20_CutIsMarked(payload.text)
       /\ (payload.script = "scrape_and_notify"
            /\ AvailableForDesc(article) <= 20)
           => payload.text = BaseCaption(article)

\* C20 holds of send_article alone.
C20_SendArticleAlone ==
    (pc = "formatted" /\ payload.script = "scrape_and_notify")
    => C20_OnlyDescriptionShortened

\* C21: with the process killed at any step of save_sent or
\* save_fetch_failures, the target file holds the whole previous content or
\* the whole new content, never a part; the new content is written to the
\* temporary file and reaches the target by the rename only.
C21_CrashAtomic ==
    /\ TargetContent \in {saving.old, saving.new}
    /\ pc \in {"mkstemp", "write", "flush", "replace", "save_raised"}
       => TargetContent = saving.old
    /\ pc = "saved" => TargetContent = saving.new
    /\ pc = "replace" => tmpFile = saving.new

C21_Witness ==
    /\ pc = "save_crashed"
    /\ tmpFile = Partial
    /\ saving.old # saving.new
    /\ TargetContent = saving.old

\* C22: telegram_request makes another POST only after a 429 response, and
\* has slept the seconds of that response's Retry-After before it.
C22_RetriesOnlyAfter429 ==
    pc \in {"request", "request_returned", "request_raised"} =>
        \A i \in 1..(Len(request.posts) - 1) :
            /\ request.posts[i].kind = "response"
            /\ request.posts[i].status = 429
            /\ request.posts[i].header # "absent" =>
                  request.sleeps[i] = retry_after(request.posts[i].header)

\* C27: telegram_request ends after at most max_retries POSTs, and it
\* returns only a response whose status is no error status; it raises
\* otherwise.
C27_EndsOkOrRaises ==
    /\ [](pc \in {"request", "request_returned", "request_raised"} =>
            /\ Len(request.posts) <= request.max_retries
            /\ pc = "request_returned" =>
                  /\ request.posts # <<>>
                  /\ request.posts[Len(request.posts)].kind = "response"
                  /\ request.resp = request.posts[Len(request.posts)].status
                  /\ ~raise_for_status(request.resp)
                  /\ request.resp # 429)
    /\ <>(pc \in {"request_returned", "request_raised"})

C27_Witness ==
    /\ pc = "request_raised"
    /\ request.max_retries = 3
    /\ Len(request.posts) = 3
    /\ \A i \in 1..3 : request.posts[i].status = 429
    /\ request.error = "HTTPError"

\* The containers of the page that have a headline tag and this link.
Occurrences(page, link) ==
    {k \in 1..Len(page) : page[k].tag /\ page[k].link = link}

\* C25: parse_html_source returns no two articles with the same link; every
\* article it returns was made from the first container of the page with that
\* link, and a first container that has a link and a headline is returned.
C25_FirstOccurrenceOnly ==
    pc = "parsed_page" =>
        LET page == extraction.page
            arts == extraction.articles
        IN  /\ \A i, j \in 1..Len(arts) :
                   arts[i].link = arts[j].link => i = j
            /\ \A i \in 1..Len(arts) :
                   \E k \in Occurrences(page, arts[i].link) :
                       /\ \A m \in Occurrences(page, arts[i].link) : k <= m
                       /\ arts[i].parsed_date = page[k].date
                       /\ page[k].headline
            /\ \A k \in 1..Len(page) :
                   (/\ page[k].tag /\ page[k].headline /\ page[k].link # 0
                    /\ \A m \in Occurrences(page, page[k].link) : k <= m)
                   => \E i \in 1..Len(arts) : arts[i].link = page[k].link

C25_Witness ==
    /\ pc = "parsed_page"
    /\ Len(extraction.page) = 2
    /\ \A k \in 1..2 : extraction.page[k].tag /\ extraction.page[k].headline
    /\ extraction.page[1].link = extraction.page[2].link
    /\ extraction.page[1].link # 0
    /\ extraction.page[1].date # extraction.page[2].date
    /\ Len(extraction.articles) = 1

\* C24: parse_wpjson_source returns the posts of the feed published on the
\* reference date of the run and no other post; the posts published on the
\* reference date (and not yet sent) all reach the list to deliver, and no
\* post of another date does.
C24_KeepsReferenceDate ==
    LET data == extraction.data
        arts == extraction.articles
        new == extraction.new_articles
    IN  /\ pc \in {"filter_feed", "filtered_feed"} =>
              /\ \A k \in 1..Len(data) :
                     data[k].date_gmt = extraction.today_str
                     => \E i \in 1..Len(arts) : arts[i].link = data[k].link
              /\ \A i \in 1..Len(arts) :
                     arts[i].parsed_date = extraction.today_str
        /\ pc = "filtered_feed" =>
              /\ \A k \in 1..Len(data) :
                     (/\ data[k].date_gmt = extraction.today_str
                      /\ data[k].link \notin extraction.sent_urls)
                     => \E i \in 1..Len(new) : new[i].link = data[k].link
              /\ \A i \in 1..Len(new) :
                     new[i].parsed_date = extraction.today_str

\* The link a record of the input has once resolved.
ResolvedLink(r) ==
    IF extraction.type = "html" THEN urljoin(extraction.base_url, r.link_raw)
    ELSE r.link

\* A record of the input that has a headline and an absolute link, and is of
\* today.
Complete(r) ==
    /\ ResolvedLink(r).site
    /\ IF extraction.type = "html" THEN r.tag /\ r.headline
       ELSE r.title /\ r.date_gmt = StartDay

\* C23: every article either parser returns has a non-empty headline and a
\* non-empty absolute link, and a record that has both is returned also when
\* it has no description and no image.
C23_HeadlineAndAbsoluteLink ==
    pc = "extracted" =>
        LET arts == extraction.articles
            input == extraction.input
        IN  /\ \A i \in 1..Len(arts) :
                   /\ arts[i].headline
                   /\ arts[i].link # EmptyText
                   /\ arts[i].link.site
            /\ \A k \in 1..Len(input) :
                   Complete(input[k])
                   => \E i \in 1..Len(arts) :
                          arts[i].link = ResolvedLink(input[k])

\* C26: whenever a run writes sent_articles.json, the scope date it writes is
\* the reference date of the run (today_str), under which its links were
\* loaded and delivered, also when midnight passes during the run.
C26_SavesUnderReferenceDate ==
    [][sentFile' # sentFile => sentFile'.date = today_str]_vars

\* C28: the description of a sent message holds no part of an entity: every
\* "&amp;", "&lt;" and "&gt;" of the escaped description is in it whole or not
\* at all.
C28_NoSplitEntity ==
    pc = "escaped" =>
        \A i \in 1..Len(payload) :
            payload[i].part \in {"&amp;", "&lt;", "&gt;"}
            => payload[i].len = payload[i].of

\* C29: when a run of main() of scrape_and_notify_multi.py has ended, with or
\* without an exception, every link whose _send returned in the run is in
\* CACHE_FILE.
C29_SentLinksPersisted ==
    pc \in {"multi_done", "multi_raised"} => multi.sent \subseteq multi.file

====
